---- MODULE Spec2Model ----
(***************************************************************************)
(* Backward chaining over first-order Horn clauses                         *)
(* (src/backward_chaining_fol.py): terms, substitutions, unification, the  *)
(* knowledge base, standardize_apart and the fol_bc_or / fol_bc_and        *)
(* generators, with the __main__ script as one of the drivers.             *)
(***************************************************************************)
EXTENDS Integers, Sequences, FiniteSets, TLC

VARIABLES
    pc,         \* which driver runs and where it is
    clauses,    \* KnowledgeBase.clauses
    index,      \* KnowledgeBase.index: name -> arity -> sequence of clauses
    counter,    \* the module-level _counter
    query,      \* the argument of the running ask (an atom or a list of atoms)
    stack,      \* the live generator frames of the running ask, oldest first
    mode,       \* "run": the newest frame executes; "yield": a value travels up
    val,        \* the substitution being yielded
    yfrom,      \* the frame that hands val to its consumer (0: none)
    results,    \* what the consumer of ask has received, in order
    paths,      \* for each result, the clause chosen at each OR node of its proof
    step,       \* position of the __main__ script in its list of queries
    ux, uy, utheta, ures,   \* one call unify(ux, uy, utheta) and its result
    renamed     \* the variable names each standardize_apart call produced

vars == <<pc, clauses, index, counter, query, stack, mode, val, yfrom,
          results, paths, step, ux, uy, utheta, ures, renamed>>

RECURSIVE substitute(_, _), occurs_check(_, _, _), unify(_, _, _),
          unify_var(_, _, _), unify_args(_, _, _, _), repr(_), join_repr(_, _),
          VarsOf(_), Closure(_, _), rename(_, _)

----------------------------------------------------------------------------
(* Expressions.  Every expression is a record of the same shape; kind is   *)
(* the Python class, args is empty for Variable and Constant.              *)

Variable(n) == [kind |-> "Variable", name |-> n, args |-> <<>>]
Constant(n) == [kind |-> "Constant", name |-> n, args |-> <<>>]
Function(n, a) == [kind |-> "Function", name |-> n, args |-> a]
Predicate(n, a) == [kind |-> "Predicate", name |-> n, args |-> a]

is_variable(x) == x.kind = "Variable"

is_compound(x) == x.kind \in {"Function", "Predicate"}

(* A substitution is a function from Variable expressions to expressions   *)
(* (the dict theta).  None is a function no dict can equal: its only key   *)
(* is not a Variable.                                                      *)
EmptyTheta == <<>>

NoneKey == [kind |-> "None", name |-> "", args |-> <<>>]

None == (NoneKey :> NoneKey)

(* substitute: a bound Variable is resolved through its chain, compound    *)
(* terms are rebuilt, a Constant is returned as it is.                     *)
substitute(x, theta) ==
    IF x.kind = "Variable"
    THEN IF x \in DOMAIN theta THEN substitute(theta[x], theta) ELSE x
    ELSE IF x.kind \in {"Function", "Predicate"}
    THEN [x EXCEPT !.args = [i \in 1..Len(x.args) |-> substitute(x.args[i], theta)]]
    ELSE x

occurs_check_shallow(var, x, theta) ==
    var = substitute(x, theta)

occurs_check(var, x, theta) ==
    LET xs == substitute(x, theta)
    IN  IF var = xs THEN TRUE
        ELSE IF is_compound(xs)
        THEN \E i \in 1..Len(xs.args) : occurs_check(var, xs.args[i], theta)
        ELSE FALSE

unify_var(var, x, theta) ==
    IF var \in DOMAIN theta THEN unify(theta[var], x, theta)
    ELSE IF is_variable(x) /\ x \in DOMAIN theta THEN unify(var, theta[x], theta)
    ELSE IF occurs_check(var, x, theta) THEN None
    ELSE (var :> x) @@ theta

unify_args_unthreaded(xa, ya, i, theta) ==
    IF i > Len(xa) \/ i > Len(ya) THEN theta
    ELSE IF unify(xa[i], ya[i], theta) = None THEN None
    ELSE unify_args(xa, ya, i + 1, theta)

(* the for loop of unify over zip(x.args, y.args), from position i on *)
unify_args(xa, ya, i, theta) ==
    IF i > Len(xa) \/ i > Len(ya) THEN theta
    ELSE LET t == unify(xa[i], ya[i], theta)
         IN  IF t = None THEN None ELSE unify_args(xa, ya, i + 1, t)

unify_any_kind(x, y, theta) ==
    IF theta = None THEN None
    ELSE IF x = y THEN theta
    ELSE LET xs == substitute(x, theta)
             ys == substitute(y, theta)
         IN  IF is_variable(xs) THEN unify_var(xs, ys, theta)
             ELSE IF is_variable(ys) THEN unify_var(ys, xs, theta)
             ELSE IF /\ is_compound(xs) /\ is_compound(ys)
                     /\ xs.name = ys.name /\ Len(xs.args) = Len(ys.args)
             THEN unify_args(xs.args, ys.args, 1, theta)
             ELSE None

unify(x, y, theta) ==
    IF theta = None THEN None
    ELSE IF x = y THEN theta
    ELSE LET xs == substitute(x, theta)
             ys == substitute(y, theta)
         IN  IF is_variable(xs) THEN unify_var(xs, ys, theta)
             ELSE IF is_variable(ys) THEN unify_var(ys, xs, theta)
             ELSE IF /\ is_compound(xs) /\ is_compound(ys) /\ xs.kind = ys.kind
                     /\ xs.name = ys.name /\ Len(xs.args) = Len(ys.args)
             THEN unify_args(xs.args, ys.args, 1, theta)
             ELSE None

(* __repr__: a Variable or Constant prints as its name, a Function or     *)
(* Predicate as name(arg, arg, ...).                                       *)
join_repr(xs, i) ==
    IF i > Len(xs) THEN ""
    ELSE IF i = Len(xs) THEN repr(xs[i])
    ELSE repr(xs[i]) \o ", " \o join_repr(xs, i + 1)

repr(x) ==
    IF x.kind \in {"Variable", "Constant"} THEN x.name
    ELSE x.name \o "(" \o join_repr(x.args, 1) \o ")"

----------------------------------------------------------------------------
(* Variables of an expression, and what a binding chain can reach.         *)

VarsOf(x) ==
    IF x.kind = "Variable" THEN {x}
    ELSE UNION {VarsOf(x.args[i]) : i \in 1..Len(x.args)}

Closure(S, theta) ==
    LET N == S \cup UNION {VarsOf(theta[w]) : w \in S \cap DOMAIN theta}
    IN  IF N = S THEN S ELSE Closure(N, theta)

\* no variable's binding chain reaches the variable itself
Acyclic(theta) ==
    \A v \in DOMAIN theta : v \notin Closure(VarsOf(theta[v]), theta)

----------------------------------------------------------------------------
(* Clauses and the knowledge base.                                         *)

Clause(head, body) == [head |-> head, body |-> body]

\* self.index[name][arity].append(clause) on the nested defaultdict
add_to_index(idx, clause) ==
    LET n == clause.head.name
        k == Len(clause.head.args)
        inner == IF n \in DOMAIN idx THEN idx[n] ELSE <<>>
        bucket == IF k \in DOMAIN inner THEN inner[k] ELSE <<>>
    IN  (n :> ((k :> Append(bucket, clause)) @@ inner)) @@ idx

RECURSIVE Reversed(_)
Reversed(sq) == IF sq = <<>> THEN <<>> ELSE Append(Reversed(Tail(sq)), Head(sq))

fetch_clauses_reversed(idx, goal) ==
    IF goal.name \in DOMAIN idx
    THEN IF Len(goal.args) \in DOMAIN idx[goal.name]
         THEN Reversed(idx[goal.name][Len(goal.args)])
         ELSE <<>>
    ELSE <<>>

\* self.index.get(name, {}).get(arity, [])
fetch_clauses_for_goal(idx, goal) ==
    IF goal.name \in DOMAIN idx
    THEN IF Len(goal.args) \in DOMAIN idx[goal.name]
         THEN idx[goal.name][Len(goal.args)]
         ELSE <<>>
    ELSE <<>>

index_after_subscript(idx, goal) ==
    LET n == goal.name
        k == Len(goal.args)
        inner == IF n \in DOMAIN idx THEN idx[n] ELSE <<>>
        bucket == IF k \in DOMAIN inner THEN inner[k] ELSE <<>>
    IN  (n :> ((k :> bucket) @@ inner)) @@ idx

\* the index after the lookup: dict.get creates no bucket
index_after_fetch(idx, goal) == idx

(* standardize_apart: every Variable named v becomes the Variable named    *)
(* "_" + v + str(_counter), with _counter already incremented (c).         *)
rename(expr, c) ==
    IF expr.kind = "Variable"
    THEN Variable("_" \o expr.name \o ToString(c))
    ELSE IF expr.kind \in {"Function", "Predicate"}
    THEN [expr EXCEPT !.args = [i \in 1..Len(expr.args) |-> rename(expr.args[i], c)]]
    ELSE expr

standardize_apart(clause, c) ==
    Clause(rename(clause.head, c),
           [i \in 1..Len(clause.body) |-> rename(clause.body[i], c)])

\* the key fol_bc_or puts in visited: (repr(current), frozenset(theta.items()))
visited_key(current, theta) == <<repr(current), theta>>

new_visited_forgets(visited, key) == visited

\* new_visited = visited.copy(); new_visited.add(key)
new_visited_of(visited, key) == visited \cup {key}

----------------------------------------------------------------------------
(* The running query.  A frame is one live generator (ask, fol_bc_or or    *)
(* fol_bc_and) with its locals; caller is the frame consuming it (0: the   *)
(* consumer of ask).  Generators suspended at a yield stay on the stack    *)
(* below the frames started after them, so the newest frame is always the  *)
(* one that executes next.                                                 *)

MaxDepth == 24

Unset == [kind |-> "Unset", name |-> "", args |-> <<>>]

Frame(fn, caller, goal, goals, theta, visited) ==
    [fn |-> fn, caller |-> caller, st |-> "start", goal |-> goal,
     goals |-> goals, theta |-> theta, current |-> Unset,
     visited |-> visited, idx |-> 0]

Top == stack[Len(stack)]

Popped == SubSeq(stack, 1, Len(stack) - 1)

WithTop(f) == [stack EXCEPT ![Len(stack)] = f]

Running == pc = "asking" /\ mode = "run" /\ stack # <<>>

KB == <<clauses, index>>
Harness == <<ux, uy, utheta, ures, renamed, step>>

\* ask: yield from fol_bc_and(self, query, {}, set()) for a list,
\*      yield from fol_bc_or(self, query, {}, set()) otherwise
AskStart ==
    /\ Running /\ Top.fn = "ask" /\ Top.st = "start"
    /\ stack' = Append(WithTop([Top EXCEPT !.st = "delegating"]),
                       IF query.list
                       THEN Frame("and", Len(stack), Unset, query.goals, EmptyTheta, {})
                       ELSE Frame("or", Len(stack), query.goals[1], <<>>, EmptyTheta, {}))
    /\ UNCHANGED <<pc, KB, counter, query, mode, val, yfrom, results, paths, Harness>>

\* the generator of ask is exhausted: the consumer's list is complete
AskReturn ==
    /\ Running /\ Top.fn = "ask" /\ Top.st = "delegating"
    /\ stack' = Popped
    /\ pc' = "done"
    /\ UNCHANGED <<KB, counter, query, mode, val, yfrom, results, paths, Harness>>

\* fol_bc_or, lines 181-183: the key is in visited, return
OrGuardHit ==
    /\ Running /\ Top.fn = "or" /\ Top.st = "start"
    /\ visited_key(substitute(Top.goal, Top.theta), Top.theta) \in Top.visited
    /\ stack' = Popped
    /\ UNCHANGED <<pc, KB, counter, query, mode, val, yfrom, results, paths, Harness>>

\* fol_bc_or, lines 181-187: new_visited, and the for loop starts
OrEnter ==
    /\ Running /\ Top.fn = "or" /\ Top.st = "start"
    /\ LET current == substitute(Top.goal, Top.theta)
           key == visited_key(current, Top.theta)
       IN  /\ key \notin Top.visited
           /\ stack' = WithTop([Top EXCEPT !.current = current,
                                           !.visited = new_visited_of(Top.visited, key),
                                           !.idx = 1, !.st = "loop"])
    /\ index' = index_after_fetch(index, Top.goal)
    /\ UNCHANGED <<pc, clauses, counter, query, mode, val, yfrom, results, paths, Harness>>

Candidates == fetch_clauses_for_goal(index, Top.goal)

InLoop == Running /\ Top.fn = "or" /\ Top.st = "loop" /\ Top.idx <= Len(Candidates)

clause_copy == standardize_apart(Candidates[Top.idx], counter + 1)

theta_prime == unify(clause_copy.head, Top.current, Top.theta)

\* lines 188-191: the renamed head does not unify, next clause
OrUnifyFail ==
    /\ InLoop /\ theta_prime = None
    /\ counter' = counter + 1
    /\ stack' = WithTop([Top EXCEPT !.idx = @ + 1])
    /\ UNCHANGED <<pc, KB, query, mode, val, yfrom, results, paths, Harness>>

\* lines 192-194: a fact, yield theta_prime
OrYieldFact ==
    /\ InLoop /\ theta_prime # None /\ clause_copy.body = <<>>
    /\ counter' = counter + 1
    /\ stack' = WithTop([Top EXCEPT !.st = "suspended"])
    /\ mode' = "yield" /\ val' = theta_prime /\ yfrom' = Len(stack)
    /\ UNCHANGED <<pc, KB, query, results, paths, Harness>>

\* lines 195-197: a rule, yield from fol_bc_and(kb, body, theta_prime, new_visited)
OrDelegate ==
    /\ InLoop /\ theta_prime # None /\ clause_copy.body # <<>>
    /\ Len(stack) < MaxDepth
    /\ counter' = counter + 1
    /\ stack' = Append(WithTop([Top EXCEPT !.st = "delegating"]),
                       Frame("and", Len(stack), Unset, clause_copy.body,
                             theta_prime, Top.visited))
    /\ UNCHANGED <<pc, KB, query, mode, val, yfrom, results, paths, Harness>>

\* resumed after its yield, or its fol_bc_and is exhausted: next clause
OrResume ==
    /\ Running /\ Top.fn = "or" /\ Top.st \in {"suspended", "delegating"}
    /\ stack' = WithTop([Top EXCEPT !.idx = @ + 1, !.st = "loop"])
    /\ UNCHANGED <<pc, KB, counter, query, mode, val, yfrom, results, paths, Harness>>

\* the for loop of fol_bc_or is over
OrReturn ==
    /\ Running /\ Top.fn = "or" /\ Top.st = "loop" /\ Top.idx > Len(Candidates)
    /\ stack' = Popped
    /\ UNCHANGED <<pc, KB, counter, query, mode, val, yfrom, results, paths, Harness>>

\* fol_bc_and, lines 204-206: no goals left, yield theta
AndYield ==
    /\ Running /\ Top.fn = "and" /\ Top.st = "start"
    /\ Top.theta # None /\ Top.goals = <<>>
    /\ stack' = WithTop([Top EXCEPT !.st = "suspended"])
    /\ mode' = "yield" /\ val' = Top.theta /\ yfrom' = Len(stack)
    /\ UNCHANGED <<pc, KB, counter, query, results, paths, Harness>>

\* lines 208-209: for theta_prime in fol_bc_or(kb, first, theta, visited)
AndFor ==
    /\ Running /\ Top.fn = "and" /\ Top.st = "start"
    /\ Top.theta # None /\ Top.goals # <<>>
    /\ Len(stack) < MaxDepth
    /\ stack' = Append(WithTop([Top EXCEPT !.st = "for"]),
                       Frame("or", Len(stack), Head(Top.goals), <<>>,
                             Top.theta, Top.visited))
    /\ UNCHANGED <<pc, KB, counter, query, mode, val, yfrom, results, paths, Harness>>

\* theta is None (lines 202-203), resumed after yield theta, or the for
\* loop over fol_bc_or is over: the generator returns
AndReturn ==
    /\ Running /\ Top.fn = "and"
    /\ IF Top.theta = None THEN TRUE ELSE Top.st \in {"for", "suspended"}
    /\ stack' = Popped
    /\ UNCHANGED <<pc, KB, counter, query, mode, val, yfrom, results, paths, Harness>>

Consumer == stack[yfrom].caller

\* the clause each fol_bc_or on the stack is at, oldest first
RECURSIVE choice_path(_, _)
choice_path(st, i) ==
    IF i > Len(st) THEN <<>>
    ELSE IF st[i].fn = "or" THEN <<st[i].idx>> \o choice_path(st, i + 1)
    ELSE choice_path(st, i + 1)

\* the value reaches the consumer of ask, which asks for the next one
YieldToCaller ==
    /\ pc = "asking" /\ mode = "yield" /\ Consumer = 0
    /\ results' = Append(results, val)
    /\ paths' = Append(paths, choice_path(stack, 1))
    /\ mode' = "run" /\ yfrom' = 0
    /\ UNCHANGED <<pc, KB, counter, query, stack, val, Harness>>

\* a yield from passes the value on to its own consumer
YieldFrom ==
    /\ pc = "asking" /\ mode = "yield" /\ Consumer # 0
    /\ ~(stack[Consumer].fn = "and" /\ stack[yfrom].fn = "or")
    /\ yfrom' = Consumer
    /\ UNCHANGED <<pc, KB, counter, query, stack, mode, val, results, paths, Harness>>

\* line 210: the for loop of fol_bc_and got theta_prime from fol_bc_or:
\* yield from fol_bc_and(kb, rest, theta_prime, visited)
AndBody ==
    /\ pc = "asking" /\ mode = "yield" /\ Consumer # 0
    /\ stack[Consumer].fn = "and" /\ stack[yfrom].fn = "or"
    /\ Len(stack) < MaxDepth
    /\ stack' = Append(stack, Frame("and", Consumer, Unset,
                                    Tail(stack[Consumer].goals), val,
                                    stack[Consumer].visited))
    /\ mode' = "run" /\ yfrom' = 0
    /\ UNCHANGED <<pc, KB, counter, query, val, results, paths, Harness>>

Run ==
    \/ AskStart \/ AskReturn
    \/ OrGuardHit \/ OrEnter \/ OrUnifyFail \/ OrYieldFact \/ OrDelegate
    \/ OrResume \/ OrReturn
    \/ AndYield \/ AndFor \/ AndReturn
    \/ YieldToCaller \/ YieldFrom \/ AndBody

\* KnowledgeBase.add_clause
add_clause(clause) ==
    /\ clauses' = Append(clauses, clause)
    /\ index' = add_to_index(index, clause)

\* list(kb.ask(q)): the generator is created and the consumer starts it
ask(q) ==
    /\ query' = q
    /\ stack' = <<Frame("ask", 0, Unset, <<>>, EmptyTheta, {})>>
    /\ results' = <<>> /\ paths' = <<>>
    /\ mode' = "run" /\ val' = EmptyTheta /\ yfrom' = 0
    /\ pc' = "asking"

----------------------------------------------------------------------------
(* Driver 1: one call of unify on inputs drawn from a bounded universe.    *)

X == Variable("X")
Y == Variable("Y")
a == Constant("a")
b == Constant("b")

AtomsU == {X, Y, a, b}

Universe ==
    AtomsU
    \cup {Function("g", <<s>>) : s \in AtomsU}
    \cup {Function("f", <<s, t>>) : s, t \in AtomsU}
    \cup {Predicate("f", <<s, t>>) : s, t \in AtomsU}
    \cup {Function("f", <<Function("g", <<s>>), t>>) : s, t \in {X, Y, a}}
    \cup {Function("f", <<s, Function("g", <<t>>)>>) : s, t \in {X, Y, a}}

ThetasU ==
    {EmptyTheta, (X :> Y), (X :> a), (Y :> Function("g", <<X>>)),
     (X :> Y) @@ (Y :> b)}

EngineIdle ==
    /\ clauses = <<>> /\ index = <<>> /\ counter = 0 /\ query = <<>>
    /\ stack = <<>> /\ mode = "run" /\ val = EmptyTheta /\ yfrom = 0
    /\ results = <<>> /\ paths = <<>> /\ step = 0 /\ renamed = <<>>

InitUnify ==
    /\ pc = "unify"
    /\ ux \in Universe /\ uy \in Universe /\ utheta \in ThetasU
    /\ ures = EmptyTheta
    /\ EngineIdle

CallUnify ==
    /\ pc = "unify"
    /\ ures' = unify(ux, uy, utheta)
    /\ pc' = "unified"
    /\ UNCHANGED <<clauses, index, counter, query, stack, mode, val, yfrom,
                   results, paths, step, ux, uy, utheta, renamed>>

NextUnify == CallUnify

SpecUnify == InitUnify /\ [][NextUnify]_vars

----------------------------------------------------------------------------
(* Driver 2: the __main__ script: the family knowledge base, then its      *)
(* queries one after the other (the counter runs on between them).         *)

abe == Constant("abe")
homer == Constant("homer")
bart == Constant("bart")
mona == Constant("mona")
x == Variable("x")
y == Variable("y")
z == Variable("z")

DemoClauses ==
    << Clause(Predicate("father", <<abe, homer>>), <<>>),
       Clause(Predicate("father", <<homer, bart>>), <<>>),
       Clause(Predicate("mother", <<mona, bart>>), <<>>),
       Clause(Predicate("parent", <<x, y>>), <<Predicate("father", <<x, y>>)>>),
       Clause(Predicate("parent", <<x, y>>), <<Predicate("mother", <<x, y>>)>>),
       Clause(Predicate("grandparent", <<x, z>>),
              <<Predicate("parent", <<x, y>>), Predicate("parent", <<y, z>>)>>),
       Clause(Predicate("ancestor", <<x, z>>), <<Predicate("parent", <<x, z>>)>>),
       Clause(Predicate("ancestor", <<x, z>>),
              <<Predicate("parent", <<x, y>>), Predicate("ancestor", <<y, z>>)>>) >>

Single(goal) == [list |-> FALSE, goals |-> <<goal>>]
Conjunction(goals) == [list |-> TRUE, goals |-> goals]

DemoQueries ==
    << Single(Predicate("grandparent", <<abe, bart>>)),
       Single(Predicate("ancestor", <<x, bart>>)),
       Conjunction(<<Predicate("father", <<abe, homer>>),
                     Predicate("parent", <<homer, bart>>)>>),
       Single(Predicate("grandparent", <<bart, abe>>)),
       Single(Predicate("parent", <<x, Constant("lisa")>>)),
       Conjunction(<<Predicate("father", <<abe, bart>>),
                     Predicate("mother", <<homer, bart>>)>>),
       Single(Predicate("father", <<abe>>)),
       Single(Predicate("ancestor", <<bart, abe>>)),
       Single(Predicate("related",
              <<Function("add", <<Constant("one"), Constant("one")>>),
                Constant("two")>>)) >>

EngineInit ==
    /\ EngineIdle
    /\ ux = Unset /\ uy = Unset /\ utheta = EmptyTheta /\ ures = EmptyTheta

InitMain == pc = "main" /\ EngineInit

MainAddClause ==
    /\ pc = "main" /\ Len(clauses) < Len(DemoClauses)
    /\ add_clause(DemoClauses[Len(clauses) + 1])
    /\ UNCHANGED <<pc, counter, query, stack, mode, val, yfrom, results, paths, Harness>>

MainAsk ==
    /\ pc = "main" /\ Len(clauses) = Len(DemoClauses) /\ step < Len(DemoQueries)
    /\ ask(DemoQueries[step + 1])
    /\ UNCHANGED <<KB, counter, Harness>>

\* the script prints the answers and goes on to its next query
MainPrint ==
    /\ pc = "done" /\ clauses = DemoClauses
    /\ pc' = "main" /\ step' = step + 1
    /\ UNCHANGED <<KB, counter, query, stack, mode, val, yfrom, results, paths,
                   ux, uy, utheta, ures, renamed>>

NextMain == MainAddClause \/ MainAsk \/ MainPrint \/ Run

SpecMain == InitMain /\ [][NextMain]_vars

----------------------------------------------------------------------------
(* Driver 3: a knowledge base built by add_clause from a pool of clauses   *)
(* (in pool order, at most MaxClauses of them), then one ask.              *)

MaxClauses == 3

c_x1 == Constant("_x1")

ClausePool ==
    << Clause(Predicate("eq", <<x, x>>), <<>>),
       Clause(Predicate("r", <<>>), <<Predicate("eq", <<y, y>>)>>),
       Clause(Predicate("p", <<a>>), <<>>),
       Clause(Predicate("p", <<a>>), <<Predicate("p", <<a>>)>>),
       Clause(Predicate("p", <<a>>), <<Predicate("q", <<a>>)>>),
       Clause(Predicate("q", <<a>>), <<Predicate("p", <<a>>)>>),
       Clause(Predicate("t", <<x, y>>),
              <<Predicate("p", <<x>>), Predicate("eq", <<x, y>>)>>),
       Clause(Predicate("p", <<c_x1>>), <<Predicate("p", <<x>>)>>) >>

QueryPool ==
    { Single(Predicate("eq", <<Y, Y>>)),
      Single(Predicate("eq", <<Y, Function("g", <<Y>>)>>)),
      Single(Predicate("eq", <<a, b>>)),
      Single(Predicate("eq", <<X, Y>>)),
      Single(Predicate("r", <<>>)),
      Single(Predicate("p", <<a>>)),
      Single(Predicate("p", <<c_x1>>)),
      Single(Predicate("t", <<X, Y>>)),
      Single(Predicate("t", <<Variable("_x1"), Y>>)),
      Single(Predicate("p", <<a, b>>)),
      Single(Predicate("zz", <<>>)),
      Conjunction(<<Predicate("p", <<X>>), Predicate("q", <<X>>)>>) }

PoolIndex(pool, c) == CHOOSE i \in 1..Len(pool) : pool[i] = c

Init == pc = "build" /\ EngineInit

AddFrom(pool) ==
    /\ pc = "build" /\ Len(clauses) < MaxClauses
    /\ \E i \in 1..Len(pool) :
          /\ IF clauses = <<>> THEN TRUE
             ELSE i > PoolIndex(pool, clauses[Len(clauses)])
          /\ add_clause(pool[i])
    /\ UNCHANGED <<pc, counter, query, stack, mode, val, yfrom, results, paths, Harness>>

AskFrom(queries) ==
    /\ pc = "build"
    /\ \E q \in queries : ask(q)
    /\ UNCHANGED <<KB, counter, Harness>>

AddClause == AddFrom(ClausePool)

Ask == AskFrom(QueryPool)

Next == AddClause \/ Ask \/ Run

Spec == Init /\ [][Next]_vars

\* the script and the pool driver side by side: a run is one or the other
InitBoth == InitMain \/ Init

NextBoth == NextMain \/ Next

SpecBoth == InitBoth /\ [][NextBoth]_vars

\* the three drivers that produce substitutions
InitAll == InitUnify \/ InitBoth

NextAll == NextUnify \/ NextBoth

SpecAll == InitAll /\ [][NextAll]_vars

----------------------------------------------------------------------------
(* Driver 4: standardize_apart called again and again on clauses of a      *)
(* small pool; renamed records the variable names each call produced.      *)

MaxRenames == 11

x1 == Variable("x1")

RenamePool ==
    { Clause(Predicate("p", <<x, x1>>), <<Predicate("q", <<x>>)>>),
      Clause(Predicate("q", <<y>>), <<>>) }

NamesOf(c) ==
    {v.name : v \in VarsOf(c.head) \cup UNION {VarsOf(c.body[i]) : i \in 1..Len(c.body)}}

InitRename == pc = "rename" /\ EngineInit

CallStandardizeApart ==
    /\ pc = "rename" /\ Len(renamed) < MaxRenames
    /\ \E c \in RenamePool :
          renamed' = Append(renamed, NamesOf(standardize_apart(c, counter + 1)))
    /\ counter' = counter + 1
    /\ UNCHANGED <<pc, KB, query, stack, mode, val, yfrom, results, paths, step,
                   ux, uy, utheta, ures>>

NextRename == CallStandardizeApart

SpecRename == InitRename /\ [][NextRename]_vars

----------------------------------------------------------------------------
(* Driver 5: knowledge bases and queries without variables, with direct    *)
(* and mutual recursion.  The consumer keeps asking for the next value and *)
(* every generator runs on (weak fairness of Run).                         *)

GroundPool ==
    << Clause(Predicate("p", <<a>>), <<>>),
       Clause(Predicate("p", <<a>>), <<Predicate("p", <<a>>)>>),
       Clause(Predicate("p", <<a>>), <<Predicate("q", <<a>>)>>),
       Clause(Predicate("q", <<a>>), <<Predicate("p", <<a>>)>>),
       Clause(Predicate("q", <<a>>), <<Predicate("p", <<a>>), Predicate("q", <<a>>)>>),
       Clause(Predicate("q", <<b>>), <<>>) >>

GroundQueries ==
    { Single(Predicate("p", <<a>>)),
      Single(Predicate("q", <<a>>)),
      Single(Predicate("q", <<b>>)),
      Conjunction(<<Predicate("p", <<a>>), Predicate("q", <<a>>)>>) }

AddGroundClause == AddFrom(GroundPool)

AskGround == AskFrom(GroundQueries)

NextGround == AddGroundClause \/ AskGround \/ Run

SpecGround == Init /\ [][NextGround]_vars /\ WF_vars(Run)

----------------------------------------------------------------------------
(* What the clauses entail, computed apart from the search: the least      *)
(* Herbrand model over the ground terms HTerms.  fresh occurs in no clause *)
(* and no query, so an atom all of whose instances are in the model is     *)
(* derivable as it stands.                                                 *)

fresh == Constant("fresh")

HTerms ==
    {a, b, c_x1, fresh, abe, homer, bart, mona}
    \cup {Function("g", <<s>>) : s \in {a, b, c_x1, fresh}}

VarsOfClause(c) ==
    VarsOf(c.head) \cup UNION {VarsOf(c.body[i]) : i \in 1..Len(c.body)}

GroundInstances(cls) ==
    UNION { { Clause(substitute(cls[k].head, sigma),
                     [i \in 1..Len(cls[k].body) |-> substitute(cls[k].body[i], sigma)])
              : sigma \in [VarsOfClause(cls[k]) -> HTerms] }
            : k \in 1..Len(cls) }

RECURSIVE Derive(_, _)
Derive(S, GI) ==
    LET N == S \cup {gi.head : gi \in {h \in GI : \A i \in 1..Len(h.body) : h.body[i] \in S}}
    IN  IF N = S THEN S ELSE Derive(N, GI)

LeastModel(cls) == Derive({}, GroundInstances(cls))

\* every instance of every query atom under theta is entailed
Derivable(theta) ==
    LET LM == LeastModel(clauses)
    IN  \A i \in 1..Len(query.goals) :
           LET g == substitute(query.goals[i], theta)
           IN  \A sigma \in [VarsOf(g) -> HTerms] : substitute(g, sigma) \in LM

QueryVars == UNION {VarsOf(query.goals[i]) : i \in 1..Len(query.goals)}

\* some ground instance of the query has a proof
HasGroundProof ==
    LET LM == LeastModel(clauses)
    IN  \E sigma \in [QueryVars -> HTerms] :
           \A i \in 1..Len(query.goals) : substitute(query.goals[i], sigma) \in LM

Sig(atom) == <<atom.name, Len(atom.args)>>

BodySigs(c) == {Sig(c.body[i]) : i \in 1..Len(c.body)}

RECURSIVE SigClosure(_, _)
SigClosure(S, cls) ==
    LET N == S \cup UNION {BodySigs(cls[k]) :
                             k \in {j \in 1..Len(cls) : Sig(cls[j].head) \in S}}
    IN  IF N = S THEN S ELSE SigClosure(N, cls)

\* the predicate dependency graph of the clauses has no cycle
AcyclicKB(cls) ==
    \A k \in 1..Len(cls) : Sig(cls[k].head) \notin SigClosure(BodySigs(cls[k]), cls)

\* the fol_bc_or frames that frame i runs under, through the caller links
RECURSIVE AncestorOrs(_)
AncestorOrs(i) ==
    LET c == stack[i].caller
    IN  IF c = 0 THEN {}
        ELSE (IF stack[c].fn = "or" THEN {c} ELSE {}) \cup AncestorOrs(c)

AtGuard == Running /\ Top.fn = "or" /\ Top.st = "start"

NoCandidates ==
    /\ pc \in {"asking", "done"} /\ ~query.list
    /\ \A k \in 1..Len(clauses) : Sig(clauses[k].head) # Sig(query.goals[1])

RECURSIVE BuildIndex(_, _)
BuildIndex(cls, k) ==
    IF k = 0 THEN <<>> ELSE add_to_index(BuildIndex(cls, k - 1), cls[k])

----------------------------------------------------------------------------
(* C1.  Soundness: every substitution ask hands to its consumer makes each *)
(* query atom derivable from the clauses of the knowledge base.            *)
AskSound ==
    (pc = "asking" /\ mode = "yield" /\ Consumer = 0) => Derivable(val)

\* a rule with a two-atom body has produced an answer
AskSoundWitness ==
    /\ pc = "asking" /\ mode = "yield" /\ Consumer = 0
    /\ query = Single(Predicate("t", <<X, Y>>))
    /\ Derivable(val)

(* C2.  Completeness on acyclic knowledge bases: when the predicate        *)
(* dependency graph has no cycle and some ground instance of the query has *)
(* a proof, the finished ask has yielded at least one substitution.        *)
AskComplete ==
    (pc = "done" /\ AcyclicKB(clauses) /\ HasGroundProof) => results # <<>>

(* C6.  A goal with no clause of its name and arity: nothing is yielded,   *)
(* no clause is tried, and the lookup leaves the index as add_clause built *)
(* it (no bucket is created).                                              *)
NoProofIsEmpty ==
    /\ index = BuildIndex(clauses, Len(clauses))
    /\ NoCandidates =>
          results = <<>> /\ mode = "run" /\ Len(stack) <= 2

\* the script's father(abe): clauses for father exist, none of arity 1
NoProofWitness ==
    /\ NoCandidates /\ pc = "done" /\ results = <<>>
    /\ query = Single(Predicate("father", <<abe>>))

(* C9.  The loop guard is exact: fol_bc_or returns at its guard exactly    *)
(* when a fol_bc_or it runs under was entered with the same goal (as a     *)
(* term, after substitution) and the same substitution.                    *)
GuardExact ==
    AtGuard =>
       ( visited_key(substitute(Top.goal, Top.theta), Top.theta) \in Top.visited
         <=> \E j \in AncestorOrs(Len(stack)) :
                /\ stack[j].current = substitute(Top.goal, Top.theta)
                /\ stack[j].theta = Top.theta )

\* the Variables the unification driver's terms are built from, and the
\* ground terms they may stand for
GroundU == {a, b, Function("g", <<a>>), Function("g", <<b>>)}

\* some ground substitution agrees with theta and makes x and y identical
HasUnifier(xx, yy, theta) ==
    \E sigma \in [{X, Y} -> GroundU] :
       /\ \A v \in DOMAIN theta : sigma[v] = substitute(theta[v], sigma)
       /\ substitute(xx, sigma) = substitute(yy, sigma)

RECURSIVE LexLess(_, _, _)
LexLess(p1, p2, i) ==
    IF i > Len(p1) \/ i > Len(p2) THEN FALSE
    ELSE IF p1[i] # p2[i] THEN p1[i] < p2[i]
    ELSE LexLess(p1, p2, i + 1)

IsGround(t) == VarsOf(t) = {}

GroundRun ==
    /\ \A k \in 1..Len(clauses) : VarsOfClause(clauses[k]) = {}
    /\ QueryVars = {}

(* C3.  Unification soundness: when unify(x, y, {}) returns a substitution *)
(* the two terms are equal after substitute under it.                      *)
UnifySound ==
    (pc = "unified" /\ utheta = EmptyTheta /\ ures # None)
       => substitute(ux, ures) = substitute(uy, ures)

\* two different compound terms were unified by binding both variables
UnifySoundWitness ==
    /\ pc = "unified" /\ utheta = EmptyTheta /\ ures # None
    /\ is_compound(ux) /\ ux # uy /\ DOMAIN ures = {X, Y}
    /\ substitute(ux, ures) = substitute(uy, ures)

(* C4.  Renaming isolation: the variable names of any two distinct         *)
(* standardize_apart calls are disjoint.                                   *)
RenamingIsolated ==
    \A i, j \in 1..Len(renamed) : i # j => renamed[i] \cap renamed[j] = {}

(* C5.  Depth-first result order: the proofs of the successive results     *)
(* differ first at an OR node where the later result uses a later clause,  *)
(* and ancestor(x, bart) on the family knowledge base yields exactly       *)
(* x = homer, x = mona, x = abe, in this order.                            *)
ResultOrder ==
    /\ \A i \in 1..(Len(paths) - 1) : LexLess(paths[i], paths[i + 1], 1)
    /\ (pc = "done" /\ step = 1) =>
          [i \in 1..Len(results) |-> substitute(x, results[i])] = <<homer, mona, abe>>

ResultOrderWitness ==
    /\ pc = "done" /\ step = 1 /\ Len(results) = 3
    /\ query = Single(Predicate("ancestor", <<x, bart>>))

(* C7.  Acyclic substitutions: every substitution unify returns when it   *)
(* is given an acyclic one, and every substitution held by a frame, being  *)
(* yielded or received by the consumer of ask, is acyclic.                 *)
SubstAcyclic ==
    /\ (pc = "unified" /\ Acyclic(utheta) /\ ures # None) => Acyclic(ures)
    /\ Acyclic(val)
    /\ \A i \in 1..Len(stack) : Acyclic(stack[i].theta)
    /\ \A i \in 1..Len(results) : Acyclic(results[i])

\* unify extended a substitution that already bound Y to g(X)
SubstAcyclicWitness ==
    /\ pc = "unified" /\ utheta = (Y :> Function("g", <<X>>))
    /\ ures # None /\ DOMAIN ures = {X, Y}
    /\ Acyclic(ures)

(* C8.  Unification finds a unifier whenever one exists: if some           *)
(* substitution that agrees with the acyclic theta makes x and y           *)
(* identical, unify(x, y, theta) is not None.                              *)
UnifyFindsUnifier ==
    (pc = "unified" /\ Acyclic(utheta) /\ HasUnifier(ux, uy, utheta)) => ures # None

(* C10.  Termination without variables: when no clause and no query atom   *)
(* contains a variable, the running ask ends.                              *)
GroundTerminates ==
    (pc = "asking" /\ GroundRun) ~> (pc = "done")

\* a mutually recursive ground knowledge base was searched to the end and
\* the loop guard cut the recursion
GroundTerminatesWitness ==
    /\ pc = "done" /\ GroundRun /\ results # <<>>
    /\ \E k \in 1..Len(clauses) : clauses[k].head.name = "q"
    /\ query = Single(Predicate("p", <<a>>))

====
